---- MODULE Spec2Model ----
(***************************************************************************)
(* Zoom Phone user-assignment export: the token request (auth), the        *)
(* paginated GET client (do_get) in its two implementations (src/app.py,   *)
(* dict query; src/api.py, literal query string), and the __main__ driver  *)
(* of src/app.py (fetch users, fetch phone numbers, extract, write files). *)
(*                                                                         *)
(* Python values: a dict is a total function on its key universe whose     *)
(* missing keys map to Absent; a str built by concatenation is a sequence  *)
(* of atoms ("?", "&", "key=value"); mutable objects (dicts shared by      *)
(* reference, default arguments) live in heap and are named by reference.  *)
(***************************************************************************)
EXTENDS Integers, Sequences, FiniteSets, TLC

VARIABLES
    mode,       \* "app" / "api": a process calling that module's functions; "main": app.py run as a script
    heap,       \* the mutable dict objects: do_get's default query/headers, the caller's query/headers
    stack,      \* do_get call frames, innermost last
    ret,        \* value travelling from a finished frame to its caller
    outcome,    \* outcome of the last finished top-level do_get call
    cur,        \* arguments of the current (or last) top-level do_get call
    reqs,       \* GET requests sent during the current top-level call, in order
    resps,      \* the server's answers to them, in order
    ncalls,     \* top-level do_get calls made by the process so far
    posts,      \* POSTs sent to the auth endpoint
    authcall,   \* last auth() call: the response it got and what it returned
    mpc,        \* __main__: position in the script
    t_token,    \* __main__: t_token
    responses,  \* __main__: all_user_responses, then all_phone_responses
    todo,       \* __main__: records still to be visited by the current for loop
    maps,       \* __main__: the five dicts
    files,      \* files written so far, in order
    seen        \* history: what went wrong in the fetches of this run

vars == <<mode, heap, stack, ret, outcome, cur, reqs, resps, ncalls, posts,
          authcall, mpc, t_token, responses, todo, maps, files, seen>>

doGetVars == <<heap, stack, ret, outcome, reqs, resps>>
mainVars == <<mpc, t_token, responses, todo, maps, files>>

----------------------------------------------------------------------------
(* Bounds *)

MaxPages == 3        \* GET requests per fetch in the harness processes
MaxMainPages == 2    \* GET requests per fetch in the script run
MaxCalls == 2        \* top-level do_get calls in a harness process
MaxAuthCalls == 2    \* auth() calls in a harness process

----------------------------------------------------------------------------
(* Python values *)

Absent == "<absent>"     \* key not in dict
None == "None"

Truthy(v) == v \notin {Absent, None, ""}

Tokens == {"t1", "t2"}

QKeys == {"page_size", "status", "type", "next_page_token"}
HKeys == {"Content-Type", "Authorization"}

EmptyQ == [k \in QKeys |-> Absent]
EmptyH == [k \in HKeys |-> Absent]

\* dict.update(other)
Update(d, other) == [k \in DOMAIN d |-> IF other[k] # Absent THEN other[k] ELSE d[k]]

\* The default arguments, evaluated once at function definition.
AppDefaultQuery == [EmptyQ EXCEPT !["page_size"] = "100"]
AppDefaultHeaders == EmptyH
ApiDefaultQuery == <<"?", "page_size=100">>
ApiDefaultHeaders == [EmptyH EXCEPT !["Content-Type"] = "application/json"]

Bearer(t) == [EmptyH EXCEPT !["Authorization"] = t]

\* auth argument: None, or a dict (possibly empty)
NoAuth == [given |-> FALSE, d |-> EmptyH]
AuthDict(d) == [given |-> TRUE, d |-> d]
AuthTruthy(a) == a.given /\ a.d # EmptyH

----------------------------------------------------------------------------
(* str operations used by api.do_get *)

NptAtom(t) == IF t = "t1" THEN "next_page_token=t1"
              ELSE IF t = "t2" THEN "next_page_token=t2"
              ELSE "next_page_token="

RECURSIVE SplitOn(_, _)
SplitOn(s, sep) ==
    IF s = <<>> THEN << <<>> >>
    ELSE LET rest == SplitOn(Tail(s), sep) IN
         IF Head(s) = sep THEN << <<>> >> \o rest
         ELSE << <<Head(s)>> \o Head(rest) >> \o Tail(rest)

RECURSIVE JoinEmpty(_)
JoinEmpty(segs) == IF segs = <<>> THEN <<>> ELSE Head(segs) \o JoinEmpty(Tail(segs))

DropLast(s) == SubSeq(s, 1, Len(s) - 1)

\* "".join(query.split('&')[:-1])
ApiStripLast(query) == JoinEmpty(DropLast(SplitOn(query, "&")))

\* query += f"&next_page_token={next_page}"
ApiAppendToken(query, next_page) == query \o <<"&", NptAtom(next_page)>>

\* What a server reads from f"{url}{query}": the query component starts at the
\* first "?", parameters are separated by "&"; without "?" there is none.
RECURSIVE AfterQuestion(_)
AfterQuestion(s) ==
    IF s = <<>> THEN <<>>
    ELSE IF Head(s) = "?" THEN <<"?">> \o Tail(s)
    ELSE AfterQuestion(Tail(s))

UrlParams(urlq) ==
    LET q == AfterQuestion(urlq) IN
    IF q = <<>> THEN <<>>
    ELSE SelectSeq(SplitOn(Tail(q), "&"), LAMBDA seg : seg # <<>>)

----------------------------------------------------------------------------
(* Server answers *)

UserRecs == {[id |-> "U1", email |-> "a@x", number |-> Absent, assignee |-> Absent, ext |-> Absent],
             [id |-> "U2", email |-> Absent, number |-> Absent, assignee |-> Absent, ext |-> Absent]}

\* assignee is the assignee's id; ext is assignee.extension_number
PhoneRecs == {[id |-> "P1", email |-> Absent, number |-> "+1", assignee |-> Absent, ext |-> Absent],
              [id |-> "P2", email |-> Absent, number |-> "+2", assignee |-> "U1", ext |-> "100"],
              [id |-> "P3", email |-> Absent, number |-> "+1", assignee |-> "U1", ext |-> Absent],
              [id |-> "P4", email |-> Absent, number |-> "+2", assignee |-> "U2", ext |-> ""]}

RecLists(resource) ==
    {<<>>} \cup {<<r>> : r \in (IF resource = "users" THEN UserRecs ELSE PhoneRecs)}

PageTokens == IF mode = "main" THEN {Absent, "t1"} ELSE {Absent, "", "t1", "t2"}

PageBound == IF mode = "main" THEN MaxMainPages ELSE MaxPages

Failure(kind) == [kind |-> kind, n |-> 0, next_page_token |-> Absent, recs |-> <<>>]

\* Answers the server may give to the n-th GET of a fetch. do_get never looks
\* at the records of a page, so outside the script run only the first page's
\* records vary.
Answers(resource, n) ==
    {Failure("non200"), Failure("undecodable")}
    \cup {[kind |-> "page", n |-> n, next_page_token |-> t, recs |-> rs] :
            t \in {t \in PageTokens : n < PageBound \/ ~Truthy(t)},
            rs \in (IF mode = "main" \/ n = 1 THEN RecLists(resource) ELSE {<<>>})}

----------------------------------------------------------------------------
(* Call frames and return values of do_get *)

Frame(auth, qref, qstr, href, next_page) ==
    [pc |-> "enter", auth |-> auth, qref |-> qref, qstr |-> qstr, href |-> href,
     next_page |-> next_page, results |-> <<>>]

Running == [kind |-> "running", pages |-> <<>>, err |-> ""]
RetList(pages) == [kind |-> "list", pages |-> pages, err |-> ""]
RetNone == [kind |-> "None", pages |-> <<>>, err |-> ""]
Raise(err) == [kind |-> "raise", pages |-> <<>>, err |-> err]

Top == stack[Len(stack)]
SetTop(f) == [stack EXCEPT ![Len(stack)] = f]

\* The innermost frame finishes with value v: it reaches the calling frame, or
\* the caller of the top-level call.
Finish(v) ==
    /\ stack' = DropLast(stack)
    /\ IF Len(stack) = 1
       THEN outcome' = v /\ ret' = Running
       ELSE outcome' = outcome /\ ret' = v

Request(f) == [query |-> IF f.qref = "none" THEN EmptyQ ELSE heap[f.qref],
               urlq |-> f.qstr,
               headers |-> heap[f.href]]

----------------------------------------------------------------------------
(* app.do_get, src/app.py *)

\* Mutation: the check for a missing Authorization header is lost.
AppAuthMissing_Never(auth, headers) == FALSE

\* elif "Authorization" not in headers: raise
AppAuthMissing(auth, headers) ==
    ~AuthTruthy(auth) /\ headers["Authorization"] = Absent

\* if auth: headers.update(auth)
AppMergeHeaders(auth, headers) ==
    IF AuthTruthy(auth) THEN Update(headers, auth.d) ELSE headers

\* if next_page: query["next_page_token"] = next_page
AppMergeQuery(query, next_page) ==
    IF Truthy(next_page) THEN [query EXCEPT !["next_page_token"] = next_page] ELSE query

\* next_page = results[-1].get("next_page_token", None)
NextPageOf(page) ==
    IF page.next_page_token = Absent THEN None ELSE page.next_page_token

\* Mutation: the status check is dropped, so a non-200 answer is kept as a page.
AppOnAnswer_NoStatusCheck(resp) ==
    IF resp.kind = "undecodable" THEN "fail"
    ELSE IF Truthy(NextPageOf(resp)) THEN "recurse"
    ELSE "return"

\* What the frame does with the answer: "fail" (return []), "recurse", "return".
AppOnAnswer(resp) ==
    IF resp.kind = "non200" THEN "fail"
    ELSE IF resp.kind = "undecodable" THEN "fail"
    ELSE IF Truthy(NextPageOf(resp)) THEN "recurse"
    ELSE "return"

\* results.extend(do_get(...)); return results
AppExtend(results, v) ==
    IF v.kind = "raise" THEN v
    ELSE IF v.kind = "None" THEN Raise("TypeError")
    ELSE RetList(results \o v.pages)

AppDoGetEnter ==
    /\ mode \in {"app", "main"}
    /\ stack # <<>>
    /\ Top.pc = "enter"
    /\ LET f == Top IN
       IF AppAuthMissing(f.auth, heap[f.href])
       THEN /\ Finish(Raise("AuthMissing"))
            /\ UNCHANGED heap
       ELSE /\ heap' = [heap EXCEPT ![f.href] = AppMergeHeaders(f.auth, @),
                                    ![f.qref] = AppMergeQuery(@, f.next_page)]
            /\ stack' = SetTop([f EXCEPT !.pc = "get"])
            /\ UNCHANGED <<ret, outcome>>
    /\ UNCHANGED <<mode, cur, reqs, resps, ncalls, posts, authcall, mainVars, seen>>

AppDoGetRequest ==
    /\ mode \in {"app", "main"}
    /\ stack # <<>>
    /\ Top.pc = "get"
    /\ \E resp \in Answers(cur.resource, Len(reqs) + 1) :
         LET f == Top
             todo_ == AppOnAnswer(resp) IN
         /\ reqs' = Append(reqs, Request(f))
         /\ resps' = Append(resps, resp)
         /\ IF todo_ = "fail"
            THEN Finish(RetList(<<>>)) /\ UNCHANGED heap
            ELSE IF todo_ = "return"
            THEN Finish(RetList(<<resp>>)) /\ UNCHANGED heap
            ELSE /\ heap' = [heap EXCEPT ![f.qref]["next_page_token"] = NextPageOf(resp)]
                 /\ stack' = Append(SetTop([f EXCEPT !.pc = "wait", !.results = <<resp>>]),
                                    Frame(NoAuth, f.qref, <<>>, f.href, None))
                 /\ UNCHANGED <<ret, outcome>>
    /\ UNCHANGED <<mode, cur, ncalls, posts, authcall, mainVars, seen>>

AppDoGetResume ==
    /\ mode \in {"app", "main"}
    /\ stack # <<>>
    /\ Top.pc = "wait"
    /\ ret.kind # "running"
    /\ Finish(AppExtend(Top.results, ret))
    /\ UNCHANGED <<mode, heap, cur, reqs, resps, ncalls, posts, authcall, mainVars, seen>>

----------------------------------------------------------------------------
(* api.do_get, src/api.py *)

ApiAuthMissing(auth, headers) ==
    ~AuthTruthy(auth) /\ headers["Authorization"] = Absent

ApiMergeHeaders(auth, headers) ==
    IF AuthTruthy(auth) THEN Update(headers, auth.d) ELSE headers

\* if next_page: query += f"&next_page_token={next_page}"
ApiMergeQuery(query, next_page) ==
    IF Truthy(next_page) THEN ApiAppendToken(query, next_page) ELSE query

\* "fail" (return results), "raise" (resp.json() raises), "recurse", "return"
ApiOnAnswer(resp) ==
    IF resp.kind = "non200" THEN "fail"
    ELSE IF resp.kind = "undecodable" THEN "raise"
    ELSE IF Truthy(NextPageOf(resp)) THEN "recurse"
    ELSE "return"

\* return results.extend(do_get(...)): list.extend returns None, and raises
\* TypeError when given None
ApiExtend(results, v) ==
    IF v.kind = "raise" THEN v
    ELSE IF v.kind = "None" THEN Raise("TypeError")
    ELSE RetNone

ApiDoGetEnter ==
    /\ mode = "api"
    /\ stack # <<>>
    /\ Top.pc = "enter"
    /\ LET f == Top IN
       IF ApiAuthMissing(f.auth, heap[f.href])
       THEN /\ Finish(Raise("AuthMissing"))
            /\ UNCHANGED heap
       ELSE /\ heap' = [heap EXCEPT ![f.href] = ApiMergeHeaders(f.auth, @)]
            /\ stack' = SetTop([f EXCEPT !.pc = "get",
                                         !.qstr = ApiMergeQuery(@, f.next_page)])
            /\ UNCHANGED <<ret, outcome>>
    /\ UNCHANGED <<mode, cur, reqs, resps, ncalls, posts, authcall, mainVars, seen>>

ApiDoGetRequest ==
    /\ mode = "api"
    /\ stack # <<>>
    /\ Top.pc = "get"
    /\ \E resp \in Answers(cur.resource, Len(reqs) + 1) :
         LET f == Top
             todo_ == ApiOnAnswer(resp) IN
         /\ reqs' = Append(reqs, Request(f))
         /\ resps' = Append(resps, resp)
         /\ IF todo_ = "fail"
            THEN Finish(RetList(<<>>))
            ELSE IF todo_ = "raise"
            THEN Finish(Raise("JSONDecodeError"))
            ELSE IF todo_ = "return"
            THEN Finish(RetList(<<resp>>))
            ELSE /\ stack' = Append(SetTop([f EXCEPT !.pc = "wait", !.results = <<resp>>]),
                                    Frame(NoAuth, "none", ApiStripLast(f.qstr), f.href,
                                          NextPageOf(resp)))
                 /\ UNCHANGED <<ret, outcome>>
    /\ UNCHANGED <<mode, heap, cur, ncalls, posts, authcall, mainVars, seen>>

ApiDoGetResume ==
    /\ mode = "api"
    /\ stack # <<>>
    /\ Top.pc = "wait"
    /\ ret.kind # "running"
    /\ Finish(ApiExtend(Top.results, ret))
    /\ UNCHANGED <<mode, heap, cur, reqs, resps, ncalls, posts, authcall, mainVars, seen>>

----------------------------------------------------------------------------
(* auth, src/app.py and src/api.py *)

AccessTokens == {Absent, "", "A"}
Expiries == {Absent, "3600"}

\* Responses of the auth endpoint: any status, a body that is not JSON or a
\* JSON object with or without the two fields.
AuthAnswers ==
    [status : {"200", "401"}, decodable : {TRUE}, access_token : AccessTokens,
     expires_in : Expiries]
    \cup [status : {"200", "401"}, decodable : {FALSE}, access_token : {Absent},
          expires_in : {Absent}]

Get(v) == IF v = Absent THEN None ELSE v      \* dict.get(key, None)

AuthValue(tok, exp) == [kind |-> "tuple", token |-> tok, expires |-> exp, err |-> ""]
AuthRaise(err) == [kind |-> "raise", token |-> None, expires |-> None, err |-> err]

\* try: data = resp.json()  except json.JSONDecodeError: return None, None
AppAuthResult(resp) ==
    IF ~resp.decodable THEN AuthValue(None, None)
    ELSE AuthValue(Get(resp.access_token), Get(resp.expires_in))

\* data = resp.json(), not guarded
ApiAuthResult(resp) ==
    IF ~resp.decodable THEN AuthRaise("JSONDecodeError")
    ELSE AuthValue(Get(resp.access_token), Get(resp.expires_in))

NoAuthCall == [n |-> 0, resp |-> CHOOSE r \in AuthAnswers : TRUE, result |-> AuthRaise("")]

AppAuth ==
    /\ mode = "app"
    /\ ncalls = 0
    /\ authcall.n < MaxAuthCalls
    /\ \E resp \in AuthAnswers :
         /\ posts' = posts + 1
         /\ authcall' = [n |-> authcall.n + 1, resp |-> resp, result |-> AppAuthResult(resp)]
    /\ UNCHANGED <<mode, doGetVars, cur, ncalls, mainVars, seen>>

ApiAuth ==
    /\ mode = "api"
    /\ ncalls = 0
    /\ authcall.n < MaxAuthCalls
    /\ \E resp \in AuthAnswers :
         /\ posts' = posts + 1
         /\ authcall' = [n |-> authcall.n + 1, resp |-> resp, result |-> ApiAuthResult(resp)]
    /\ UNCHANGED <<mode, doGetVars, cur, ncalls, mainVars, seen>>

----------------------------------------------------------------------------
(* A process that imports the module and calls do_get. auth and do_get share *)
(* no object, so a process exercises one of them: a run of auth calls, or a *)
(* run of do_get calls.                                                     *)

AuthArgs == {NoAuth, AuthDict(EmptyH), AuthDict(Bearer("Bearer A")), AuthDict(Bearer("Bearer B"))}

\* headers argument: left to the default, or a fresh dict of the caller
HeaderArgs == [default : {TRUE}, h : {EmptyH}]
              \cup [default : {FALSE}, h : {EmptyH, Bearer("Bearer C")}]

AppQueryArgs == [default : {TRUE}, q : {EmptyQ}]
                \cup [default : {FALSE},
                      q : {[EmptyQ EXCEPT !["page_size"] = "100", !["type"] = "all"]}]

ApiQueryArgs == {ApiDefaultQuery,
                 <<"?", "page_size=100", "&", "type=all">>,
                 <<"?", "page_size=100", "&", "type=all", "&", "status=activate">>}

NextPageArgs == {None, "t1"}

\* The arguments of a top-level call and the objects as they were when it was made.
CallRecord(resource, a, qdefault, hdefault, np, h, qs) ==
    [resource |-> resource, auth |-> a, qdefault |-> qdefault, hdefault |-> hdefault,
     next_page |-> np, heap0 |-> h, qstr0 |-> qs]

AppDoGetCall ==
    /\ mode = "app"
    /\ stack = <<>>
    /\ authcall.n = 0
    /\ ncalls < MaxCalls
    /\ \E a \in AuthArgs, qa \in AppQueryArgs, ha \in HeaderArgs, np \in NextPageArgs :
         LET h == [heap EXCEPT !["argq"] = IF qa.default THEN @ ELSE qa.q,
                               !["argh"] = IF ha.default THEN @ ELSE ha.h] IN
         /\ heap' = h
         /\ stack' = <<Frame(a, IF qa.default THEN "defq" ELSE "argq", <<>>,
                             IF ha.default THEN "defh" ELSE "argh", np)>>
         /\ cur' = CallRecord("users", a, qa.default, ha.default, np, h, <<>>)
    /\ ret' = Running
    /\ outcome' = Running
    /\ reqs' = <<>>
    /\ resps' = <<>>
    /\ ncalls' = ncalls + 1
    /\ UNCHANGED <<mode, posts, authcall, mainVars, seen>>

ApiDoGetCall ==
    /\ mode = "api"
    /\ stack = <<>>
    /\ authcall.n = 0
    /\ ncalls < MaxCalls
    /\ \E a \in AuthArgs, qa \in ApiQueryArgs, ha \in HeaderArgs, np \in NextPageArgs :
         LET h == [heap EXCEPT !["argh"] = IF ha.default THEN @ ELSE ha.h] IN
         /\ heap' = h
         /\ stack' = <<Frame(a, "none", qa, IF ha.default THEN "defh" ELSE "argh", np)>>
         /\ cur' = CallRecord("users", a, qa = ApiDefaultQuery, ha.default, np, h, qa)
    /\ ret' = Running
    /\ outcome' = Running
    /\ reqs' = <<>>
    /\ resps' = <<>>
    /\ ncalls' = ncalls + 1
    /\ UNCHANGED <<mode, posts, authcall, mainVars, seen>>

----------------------------------------------------------------------------
(* __main__ of src/app.py *)

UserIds == {"U1", "U2"}
Numbers == {"+1", "+2"}

EmptyMaps == [all_phone_numbers |-> [k \in Numbers |-> Absent],
              unassigned_phone_numbers |-> [k \in Numbers |-> Absent],
              user_phone_numbers |-> [k \in UserIds |-> Absent],
              user_emails |-> [k \in UserIds |-> Absent],
              user_extensions |-> [k \in UserIds |-> Absent]]

\* The order of the five with open(...) blocks.
FileOrder == <<"user_phone_numbers", "all_phone_numbers", "user_extensions",
               "unassigned_phone_numbers", "user_emails">>

\* f"Bearer {t_token}"
BearerOf(t) == IF t = "A" THEN "Bearer A" ELSE "Bearer"

UsersQuery == [EmptyQ EXCEPT !["page_size"] = "100", !["status"] = "activate"]
PhonesQuery == [EmptyQ EXCEPT !["page_size"] = "100", !["type"] = "all"]

\* for response in ...: list.extend(response.get(key, []))
RECURSIVE Flatten(_)
Flatten(pages) == IF pages = <<>> THEN <<>> ELSE Head(pages).recs \o Flatten(Tail(pages))

FetchFailed == \E i \in 1..Len(resps) : resps[i].kind # "page"

\* Mutation: the check is "t_token is None", which lets an empty token through.
MainHalts_NoneOnly(tok) == tok = None

\* if not t_token: raise
MainHalts(tok) == ~Truthy(tok)

\* user_emails[user["id"]] = user["email"]
UserStep(m, user) ==
    [m EXCEPT !.user_emails[user.id] = user.email]

\* Mutation: the else branch is lost, every record also lands in unassigned.
PhoneStep_AlwaysUnassigned(m, pn) ==
    LET m1 == [m EXCEPT !.all_phone_numbers[pn.number] = pn.id,
                        !.unassigned_phone_numbers[pn.number] = pn.id] IN
    IF pn.assignee # Absent
    THEN [m1 EXCEPT !.user_phone_numbers[pn.assignee] = pn.number]
    ELSE m1

\* Mutation: the test is "extension is not None", which keeps an empty extension.
PhoneStep_KeepsEmptyExtension(m, pn) ==
    LET m1 == [m EXCEPT !.all_phone_numbers[pn.number] = pn.id] IN
    IF pn.assignee # Absent
    THEN LET m2 == [m1 EXCEPT !.user_phone_numbers[pn.assignee] = pn.number]
             extension == Get(pn.ext) IN
         IF extension # None
         THEN [m2 EXCEPT !.user_extensions[pn.assignee] = extension]
         ELSE m2
    ELSE [m1 EXCEPT !.unassigned_phone_numbers[pn.number] = pn.id]

\* the body of for phone_number in phone_numbers_list
PhoneStep(m, pn) ==
    LET m1 == [m EXCEPT !.all_phone_numbers[pn.number] = pn.id] IN
    IF pn.assignee # Absent
    THEN LET m2 == [m1 EXCEPT !.user_phone_numbers[pn.assignee] = pn.number]
             extension == Get(pn.ext) IN
         IF Truthy(extension)
         THEN [m2 EXCEPT !.user_extensions[pn.assignee] = extension]
         ELSE m2
    ELSE [m1 EXCEPT !.unassigned_phone_numbers[pn.number] = pn.id]

MainAuth ==
    /\ mode = "main"
    /\ mpc = "auth"
    /\ \E resp \in AuthAnswers :
         /\ posts' = posts + 1
         /\ authcall' = [n |-> authcall.n + 1, resp |-> resp, result |-> AppAuthResult(resp)]
         /\ t_token' = AppAuthResult(resp).token
    /\ mpc' = "check"
    /\ UNCHANGED <<mode, doGetVars, cur, ncalls, responses, todo, maps, files, seen>>

\* The call do_get(url=..., auth={...}, query={...}) as the script makes it.
MainCall(resource, q) ==
    LET h == [heap EXCEPT !["argq"] = q]
        a == AuthDict(Bearer(BearerOf(t_token))) IN
    /\ heap' = h
    /\ stack' = <<Frame(a, "argq", <<>>, "defh", None)>>
    /\ cur' = CallRecord(resource, a, FALSE, TRUE, None, h, <<>>)
    /\ ret' = Running
    /\ outcome' = Running
    /\ reqs' = <<>>
    /\ resps' = <<>>
    /\ ncalls' = ncalls + 1

\* Mutation: the two fetches are swapped, phone numbers are requested first.
MainCheckToken_PhonesFirst ==
    /\ mode = "main"
    /\ mpc = "check"
    /\ IF MainHalts(t_token)
       THEN /\ mpc' = "raised"
            /\ UNCHANGED <<doGetVars, cur, ncalls>>
       ELSE /\ mpc' = "users_fetch"
            /\ MainCall("phones", PhonesQuery)
    /\ UNCHANGED <<mode, posts, authcall, t_token, responses, todo, maps, files, seen>>

MainCheckToken ==
    /\ mode = "main"
    /\ mpc = "check"
    /\ IF MainHalts(t_token)
       THEN /\ mpc' = "raised"
            /\ UNCHANGED <<doGetVars, cur, ncalls>>
       ELSE /\ mpc' = "users_fetch"
            /\ MainCall("users", UsersQuery)
    /\ UNCHANGED <<mode, posts, authcall, t_token, responses, todo, maps, files, seen>>

MainUsers ==
    /\ mode = "main"
    /\ mpc = "users_fetch"
    /\ stack = <<>>
    /\ outcome.kind # "running"
    /\ IF outcome.kind # "list"
       THEN mpc' = "raised" /\ UNCHANGED <<responses, todo>>
       ELSE /\ mpc' = "users_loop"
            /\ responses' = outcome.pages
            /\ todo' = Flatten(outcome.pages)
    /\ seen' = IF FetchFailed THEN seen \cup {"users"} ELSE seen
    /\ UNCHANGED <<mode, doGetVars, cur, ncalls, posts, authcall, t_token, maps, files>>

MainUserStep ==
    /\ mode = "main"
    /\ mpc = "users_loop"
    /\ todo # <<>>
    /\ IF Head(todo).email = Absent
       THEN mpc' = "raised" /\ UNCHANGED <<todo, maps>>      \* KeyError: 'email'
       ELSE /\ maps' = UserStep(maps, Head(todo))
            /\ todo' = Tail(todo)
            /\ mpc' = mpc
    /\ UNCHANGED <<mode, doGetVars, cur, ncalls, posts, authcall, t_token, responses, files, seen>>

MainCallPhones ==
    /\ mode = "main"
    /\ mpc = "users_loop"
    /\ todo = <<>>
    /\ mpc' = "phones_fetch"
    /\ MainCall("phones", PhonesQuery)
    /\ UNCHANGED <<mode, posts, authcall, t_token, responses, todo, maps, files, seen>>

MainPhones ==
    /\ mode = "main"
    /\ mpc = "phones_fetch"
    /\ stack = <<>>
    /\ outcome.kind # "running"
    /\ IF outcome.kind # "list"
       THEN mpc' = "raised" /\ UNCHANGED <<responses, todo>>
       ELSE /\ mpc' = "phones_loop"
            /\ responses' = outcome.pages
            /\ todo' = Flatten(outcome.pages)
    /\ seen' = IF FetchFailed THEN seen \cup {"phones"} ELSE seen
    /\ UNCHANGED <<mode, doGetVars, cur, ncalls, posts, authcall, t_token, maps, files>>

MainPhoneStep ==
    /\ mode = "main"
    /\ mpc = "phones_loop"
    /\ todo # <<>>
    /\ maps' = PhoneStep(maps, Head(todo))
    /\ todo' = Tail(todo)
    /\ UNCHANGED <<mode, doGetVars, cur, ncalls, posts, authcall, mpc, t_token, responses, files, seen>>

MainWrite ==
    /\ mode = "main"
    /\ mpc = "phones_loop"
    /\ todo = <<>>
    /\ LET name == FileOrder[Len(files) + 1] IN
       files' = Append(files, [name |-> name, content |-> maps[name]])
    /\ mpc' = IF Len(files) + 1 = Len(FileOrder) THEN "done" ELSE mpc
    /\ UNCHANGED <<mode, doGetVars, cur, ncalls, posts, authcall, t_token, responses, todo, maps, seen>>

----------------------------------------------------------------------------
(* The system *)

InitHeap(m) ==
    [defq |-> IF m = "api" THEN EmptyQ ELSE AppDefaultQuery,
     defh |-> IF m = "api" THEN ApiDefaultHeaders ELSE AppDefaultHeaders,
     argq |-> EmptyQ,
     argh |-> EmptyH]

Init ==
    /\ mode \in {"app", "api", "main"}
    /\ heap = InitHeap(mode)
    /\ stack = <<>>
    /\ ret = Running
    /\ outcome = Running
    /\ cur = CallRecord("users", NoAuth, TRUE, TRUE, None, InitHeap(mode), <<>>)
    /\ reqs = <<>>
    /\ resps = <<>>
    /\ ncalls = 0
    /\ posts = 0
    /\ authcall = NoAuthCall
    /\ mpc = IF mode = "main" THEN "auth" ELSE "lib"
    /\ t_token = None
    /\ responses = <<>>
    /\ todo = <<>>
    /\ maps = EmptyMaps
    /\ files = <<>>
    /\ seen = {}

Next ==
    \/ AppDoGetCall
    \/ AppDoGetEnter
    \/ AppDoGetRequest
    \/ AppDoGetResume
    \/ ApiDoGetCall
    \/ ApiDoGetEnter
    \/ ApiDoGetRequest
    \/ ApiDoGetResume
    \/ AppAuth
    \/ ApiAuth
    \/ MainAuth
    \/ MainCheckToken
    \/ MainUsers
    \/ MainUserStep
    \/ MainCallPhones
    \/ MainPhones
    \/ MainPhoneStep
    \/ MainWrite

Spec == Init /\ [][Next]_vars

----------------------------------------------------------------------------
(* Vocabulary of the properties *)

\* A top-level do_get call has finished (returned or raised).
Done == ncalls > 0 /\ stack = <<>> /\ outcome.kind # "running"

IsPage(resp) == resp.kind = "page"
Continues(resp) == IsPage(resp) /\ Truthy(NextPageOf(resp))

AllPages == \A i \in 1..Len(resps) : IsPage(resps[i])

\* The next_page_token parameters a request carries, as the server reads them.
TokenAtoms == {NptAtom(t) : t \in Tokens \cup {""}}

TokenParams(req) ==
    IF mode = "api"
    THEN SelectSeq(UrlParams(req.urlq), LAMBDA seg : Len(seg) = 1 /\ seg[1] \in TokenAtoms)
    ELSE IF req.query["next_page_token"] = Absent THEN <<>>
         ELSE << <<NptAtom(req.query["next_page_token"])>> >>

\* The call was made with no auth mapping and without a headers argument that
\* holds an Authorization key.
NoCredentials ==
    /\ ~AuthTruthy(cur.auth)
    /\ cur.hdefault \/ cur.heap0["argh"]["Authorization"] = Absent

\* The fetch sent its requests up to the first answer that ends it, and no more.
StopsExactly ==
    /\ reqs # <<>>
    /\ Len(reqs) = Len(resps)
    /\ ~Continues(resps[Len(resps)])
    /\ \A i \in 1..(Len(resps) - 1) : Continues(resps[i])

UnusableToken == ~authcall.resp.decodable \/ ~Truthy(authcall.resp.access_token)

----------------------------------------------------------------------------
(* Properties *)

\* C1: when every GET of a fetch made with an auth header is answered 200 with
\* a decodable body (all but the last page carrying a token), do_get returns
\* the list of exactly those pages in request order.
C1_ReturnsAllPages ==
    (Done /\ AuthTruthy(cur.auth) /\ resps # <<>> /\ AllPages)
        => outcome = RetList(resps)

\* C2: when the k-th GET is answered non-200 after k-1 good pages, do_get
\* returns exactly those k-1 pages in order and raises nothing.
C2_ReturnsPrefixOnNon200 ==
    (Done /\ resps # <<>> /\ resps[Len(resps)].kind = "non200")
        => outcome = RetList(DropLast(resps))

\* C3: a call without auth and without an Authorization header argument sends
\* no GET and raises the authorization-missing error, whatever calls preceded.
C3_MissingAuthRaises ==
    (ncalls > 0 /\ NoCredentials)
        => /\ reqs = <<>>
           /\ Done => outcome = Raise("AuthMissing")

\* C4: request i+1 of a fetch carries exactly one continuation token, the one
\* page i returned.
C4_OneFreshToken ==
    \A i \in 1..(Len(reqs) - 1) :
        TokenParams(reqs[i + 1]) = << <<NptAtom(resps[i].next_page_token)>> >>

\* C5 as stated: the returned list is empty iff the first GET failed or the
\* first page held zero records.
C5_EmptyIffFailedOrNoRecords ==
    (Done /\ outcome.kind = "list" /\ resps # <<>>)
        => (outcome.pages = <<>> <=> (~IsPage(resps[1]) \/ resps[1].recs = <<>>))

\* C5 amended: whenever do_get returns a list, it is empty iff the first GET
\* failed; a first page with zero records is still one page of the list.
C5_EmptyIffFirstFailed ==
    (Done /\ outcome.kind = "list" /\ resps # <<>>)
        => (outcome.pages = <<>> <=> ~IsPage(resps[1]))

C5_Witness ==
    /\ Done
    /\ outcome.kind = "list"
    /\ outcome.pages # <<>>
    /\ resps[1].recs = <<>>

\* C6: a fetch whose answers end at position m returns, having sent exactly m
\* GET requests.
C6_ReturnsAfterExactlyM ==
    (Done /\ reqs # <<>>) => (outcome.kind # "raise" /\ StopsExactly)

\* C7: auth sends one POST and returns (None, None) for an undecodable body,
\* else (access_token or None, expires_in or None), whatever the status.
C7_AuthResultFromBody ==
    authcall.n > 0 =>
        /\ posts = authcall.n
        /\ authcall.result =
              IF authcall.resp.decodable
              THEN AuthValue(Get(authcall.resp.access_token), Get(authcall.resp.expires_in))
              ELSE AuthValue(None, None)

\* C8: in the script, when auth yields no usable token no GET is ever sent and
\* no file is ever written: the run stops at the token check.
C8_NoTokenHalts ==
    (mode = "main" /\ authcall.n > 0 /\ UnusableToken)
        => /\ ncalls = 0 /\ stack = <<>> /\ reqs = <<>>
           /\ files = <<>>
           /\ mpc \in {"check", "raised"}

C8_Witness ==
    /\ mode = "main"
    /\ mpc = "raised"
    /\ authcall.resp.decodable
    /\ authcall.resp.access_token = ""

\* C9: in the script, a failed page in either fetch does not stop the run: it
\* ends with all five files written.
C9_FailedPageStillWritesAll ==
    (mode = "main" /\ seen # {} /\ mpc \in {"done", "raised"})
        => (mpc = "done" /\ Len(files) = Len(FileOrder))

\* C10: each phone-number record puts number -> id in all_phone_numbers and
\* goes to exactly one of user_phone_numbers (assignee present) and
\* unassigned_phone_numbers (no assignee).
C10_RoutesEachRecord ==
    [][(mpc = "phones_loop" /\ todo # <<>> /\ todo' = Tail(todo)) =>
        LET pn == Head(todo) IN
        /\ maps'.all_phone_numbers[pn.number] = pn.id
        /\ IF pn.assignee # Absent
           THEN /\ maps'.user_phone_numbers[pn.assignee] = pn.number
                /\ maps'.unassigned_phone_numbers = maps.unassigned_phone_numbers
           ELSE /\ maps'.unassigned_phone_numbers[pn.number] = pn.id
                /\ maps'.user_phone_numbers = maps.user_phone_numbers]_vars

C10_Witness ==
    /\ mpc = "phones_loop"
    /\ todo = <<>>
    /\ maps.unassigned_phone_numbers["+1"] = "P1"
    /\ maps.user_phone_numbers["U1"] = "+2"
    /\ maps.all_phone_numbers = [k \in Numbers |-> IF k = "+1" THEN "P1" ELSE "P2"]

----------------------------------------------------------------------------
(* The same properties of do_get and auth, for src/app.py alone *)

InApp == mode \in {"app", "main"}

AppReturnsAllPages == InApp => C1_ReturnsAllPages
AppReturnsPrefixOnNon200 == InApp => C2_ReturnsPrefixOnNon200
AppOneFreshToken == InApp => C4_OneFreshToken
AppReturnsAfterExactlyM == InApp => C6_ReturnsAfterExactlyM
AppAuthResultFromBody == InApp => C7_AuthResultFromBody

\* Both implementations stop exactly at the first answer that ends the fetch.
BothStopExactly == (Done /\ reqs # <<>>) => StopsExactly


\* The first call of a process without credentials raises before any GET.
FirstCallMissingAuthRaises ==
    (ncalls = 1 /\ NoCredentials) => (reqs = <<>> /\ (Done => outcome = Raise("AuthMissing")))

\* The script stops early only at the token check or on a user record without
\* an email; a failed page never stops it.
MainStopsOnlyOnTokenOrEmail ==
    (mode = "main" /\ mpc = "raised")
        => (MainHalts(t_token) \/ (todo # <<>> /\ Head(todo).email = Absent))

\* The script never gets stuck before its end.
MainRunsToItsEnd ==
    mode = "main" => (mpc \in {"done", "raised"} \/ ENABLED Next)

----------------------------------------------------------------------------
(* Properties of the extraction loops and of the order of the script *)

\* C11: a phone-number record sets user_extensions[assignee.id] to the
\* assignee's extension_number exactly when it has an assignee whose
\* extension_number is present and non-empty; any other record leaves
\* user_extensions as it was.
C11_ExtensionOnlyWhenNonEmpty ==
    [][(mpc = "phones_loop" /\ todo # <<>> /\ todo' = Tail(todo)) =>
        LET pn == Head(todo) IN
        maps'.user_extensions =
            IF pn.assignee # Absent /\ pn.ext \notin {Absent, ""}
            THEN [maps.user_extensions EXCEPT ![pn.assignee] = pn.ext]
            ELSE maps.user_extensions]_vars

C11_Witness ==
    /\ mpc = "phones_loop"
    /\ todo = <<>>
    /\ maps.user_extensions["U1"] = "100"
    /\ maps.user_phone_numbers["U2"] = "+2"
    /\ maps.user_extensions["U2"] = Absent

\* C12: a user record without an email adds nothing to user_emails and does
\* not stop the script.
C12_MissingEmailSkipped ==
    (mode = "main" /\ todo # <<>> /\ Head(todo).email = Absent)
        => mpc # "raised"

\* C13: in the script one auth request is made, before every GET; the GETs of
\* the users fetch (first do_get call) all come before those of the
\* phone-numbers fetch (second call); a file is written only after the
\* phone-numbers fetch has returned.
C13_StrictOrder ==
    [][mode = "main" =>
        /\ (posts' # posts) => (posts = 0 /\ ncalls = 0 /\ reqs = <<>> /\ files = <<>>)
        /\ (Len(reqs') > Len(reqs)) =>
              /\ posts = 1
              /\ files = <<>>
              /\ (cur.resource = "users") <=> (ncalls = 1)
              /\ (cur.resource = "phones") <=> (ncalls = 2)
        /\ ncalls' >= ncalls
        /\ (files' # files) =>
              (posts = 1 /\ ncalls = 2 /\ cur.resource = "phones" /\ Done)]_vars

C13_Witness ==
    /\ mode = "main"
    /\ mpc = "done"
    /\ posts = 1
    /\ ncalls = 2
    /\ Len(reqs) = 2
    /\ Len(files) = 5
    /\ "users" \notin seen
    /\ maps.user_emails["U1"] # Absent

----------------------------------------------------------------------------
(* Properties of do_get: decoding, independence of fetches, what a request carries *)

\* C14: a 200 answer whose body does not decode makes do_get stop without
\* raising; the caller gets exactly the pages decoded before it.
C14_UndecodableStopsQuietly ==
    (Done /\ resps # <<>> /\ resps[Len(resps)].kind = "undecodable")
        => outcome = RetList(DropLast(resps))

\* The objects the current call was given, and what a process that has made no
\* earlier do_get call would hold for the defaults.
CallQRef == IF cur.qdefault THEN "defq" ELSE "argq"
CallHRef == IF cur.hdefault THEN "defh" ELSE "argh"

FreshHeap == [InitHeap(mode) EXCEPT !["argq"] = cur.heap0["argq"],
                                    !["argh"] = cur.heap0["argh"]]

\* Whether that process would raise for these arguments, and the requests it
\* would send for the answers resps[1..i-1].
FreshMissing ==
    IF mode = "api" THEN ApiAuthMissing(cur.auth, FreshHeap[CallHRef])
    ELSE AppAuthMissing(cur.auth, FreshHeap[CallHRef])

RECURSIVE FreshApiQuery(_)
FreshApiQuery(i) ==
    IF i = 1 THEN ApiMergeQuery(cur.qstr0, cur.next_page)
    ELSE ApiMergeQuery(ApiStripLast(FreshApiQuery(i - 1)), NextPageOf(resps[i - 1]))

FreshRequest(i) ==
    IF mode = "api"
    THEN [query |-> EmptyQ,
          urlq |-> FreshApiQuery(i),
          headers |-> ApiMergeHeaders(cur.auth, FreshHeap[CallHRef])]
    ELSE [query |-> IF i = 1 THEN AppMergeQuery(FreshHeap[CallQRef], cur.next_page)
                    ELSE [AppMergeQuery(FreshHeap[CallQRef], cur.next_page)
                            EXCEPT !["next_page_token"] = NextPageOf(resps[i - 1])],
          urlq |-> <<>>,
          headers |-> AppMergeHeaders(cur.auth, FreshHeap[CallHRef])]

\* C15: a fetch sends the requests (and so, the answers being the same, returns
\* the result) it would send had no other fetch run before it in the process.
C15_FetchIndependentOfEarlier ==
    ncalls > 0 =>
        /\ FreshMissing => reqs = <<>>
        /\ \A i \in 1..Len(reqs) : reqs[i] = FreshRequest(i)

\* The query parameters of a request other than next_page_token, and those the
\* caller supplied.
IsTokenParam(seg) == Len(seg) = 1 /\ seg[1] \in TokenAtoms

BaseParams(req) ==
    IF mode = "api"
    THEN [kind |-> "url", query |-> EmptyQ,
          params |-> SelectSeq(UrlParams(req.urlq), LAMBDA seg : ~IsTokenParam(seg))]
    ELSE [kind |-> "dict", query |-> [req.query EXCEPT !["next_page_token"] = Absent],
          params |-> <<>>]

CallBaseParams ==
    BaseParams([query |-> cur.heap0[CallQRef], urlq |-> cur.qstr0, headers |-> EmptyH])

\* C16: every GET of a fetch carries all the base query parameters the caller
\* supplied, unchanged; only next_page_token is added or replaced.
C16_BaseParamsKept ==
    \A i \in 1..Len(reqs) : BaseParams(reqs[i]) = CallBaseParams

AppUndecodableStopsQuietly == InApp => C14_UndecodableStopsQuietly
AppBaseParamsKept == InApp => C16_BaseParamsKept
MainFetchesIndependent == mode = "main" => C15_FetchIndependentOfEarlier
FirstFetchAsFresh == ncalls = 1 => C15_FetchIndependentOfEarlier

\* C17: the first GET of a top-level call made without next_page carries no
\* next_page_token, whatever earlier calls did.
C17_FirstRequestWithoutToken ==
    (ncalls > 0 /\ cur.next_page = None /\ reqs # <<>>)
        => TokenParams(reqs[1]) = <<>>

\* C18: when do_get has returned or raised, the caller's query and headers
\* mappings and the default query and headers hold what they held at the call.
C18_ArgumentsUnchanged ==
    Done => heap = cur.heap0

ApiFirstRequestWithoutToken == mode = "api" => C17_FirstRequestWithoutToken
MainFirstRequestWithoutToken == mode = "main" => C17_FirstRequestWithoutToken
FirstCallFirstRequestWithoutToken == ncalls = 1 => C17_FirstRequestWithoutToken

\* api.do_get changes no object but the headers mapping.
ApiChangesOnlyHeaders ==
    mode = "api" => [heap EXCEPT !["defh"] = cur.heap0["defh"], !["argh"] = cur.heap0["argh"]] = cur.heap0

====
